---- MODULE Spec2Model ----
(***************************************************************************)
(* Model of the Agent facade of agent-x (src/src/agents/Agent.ts): the     *)
(* Agent constructor (definition lookup, provider dispatch, credential     *)
(* check, output-schema compilation, composition of the BaseAgent) and the *)
(* recursive translator jsonSchemaToZod, together with the acceptance      *)
(* behaviour of the zod validators the translator builds.                  *)
(*                                                                         *)
(* JavaScript objects are records; a property that is absent is a field    *)
(* that is not in the record's DOMAIN.  JavaScript null is NullSchema.     *)
(***************************************************************************)
EXTENDS Integers, Sequences, FiniteSets, TLC

VARIABLES options, env, fileDef, regDef, phase, agentDef, error, trace, agent,
          schema, zod

vars == <<options, env, fileDef, regDef, phase, agentDef, error, trace, agent,
          schema, zod>>

ctorVars == <<options, env, fileDef, regDef, phase, agentDef, error, trace, agent>>

(***************************************************************************)
(* Bounds of the model.                                                    *)
(***************************************************************************)
MaxDepth == 1

MaxValueDepth == 1

MaxArrayLen == 2

Names == {"a", "b"}

Descs == {"d"}

(***************************************************************************)
(* JavaScript values and property access.                                  *)
(***************************************************************************)
Unset == "<undefined>"

Truthy(x) == x # Unset /\ x # ""

Has(o, k) == k \in DOMAIN o

NullSchema == [null |-> TRUE]

IsNull(s) == "null" \in DOMAIN s

EmptyObject == <<>>

(***************************************************************************)
(* Output schemas (the value of output_schema in an agent definition).     *)
(***************************************************************************)
WithDesc(S) == S \cup {[description |-> d] @@ s : s \in S, d \in Descs}

ReqLists == {<<>>, <<"a">>, <<"b">>, <<"a", "b">>}

WithRequired(S) == S \cup {[required |-> r] @@ s : s \in S, r \in ReqLists}

LeafSchemas ==
  {NullSchema}
    \cup WithDesc({EmptyObject} \cup
                  {[type |-> t] : t \in {"string", "number", "boolean", "integer", "array"}})
    \cup WithDesc({[type |-> "object"], [type |-> "object", required |-> <<"a">>]})

PropMaps(S) == UNION {[D -> S] : D \in SUBSET Names}

RECURSIVE SchemasOfDepth(_)
SchemasOfDepth(n) ==
  IF n = 0 THEN LeafSchemas
  ELSE LET S == SchemasOfDepth(n - 1)
       IN  S \cup WithDesc({[type |-> "array", items |-> s] : s \in S})
             \cup WithDesc(WithRequired({[type |-> "object", properties |-> p] :
                                           p \in PropMaps(S)}))

Schemas == SchemasOfDepth(MaxDepth)

(***************************************************************************)
(* zod validators.                                                         *)
(***************************************************************************)
ZAny == [kind |-> "any"]

ZString == [kind |-> "string"]

ZNumber == [kind |-> "number"]

ZBoolean == [kind |-> "boolean"]

ZArray(element) == [kind |-> "array", element |-> element]

ZObject(shape) == [kind |-> "object", shape |-> shape]

describe(z, d) == [description |-> d] @@ z

Threw == [threw |-> "TypeError"]

IsThrew(z) == "threw" \in DOMAIN z

(***************************************************************************)
(* jsonSchemaToZod, Agent.ts lines 100-156.                                *)
(***************************************************************************)
WithOwnDescription(z, s) ==
  IF Has(s, "description") /\ Truthy(s.description) THEN describe(z, s.description) ELSE z

\* lines 116-124: every listed field that is in the shape is assigned to itself
ApplyRequired(shape, s) ==
  IF Has(s, "required")
  THEN [k \in DOMAIN shape |->
          IF \E i \in 1..Len(s.required) : s.required[i] = k THEN shape[k] ELSE shape[k]]
  ELSE shape

RECURSIVE jsonSchemaToZod(_)
\* lines 107-113: reading value.description of a null value raises a TypeError
FieldSchema(value) ==
  LET fieldSchema == jsonSchemaToZod(value)
  IN  IF IsNull(value) THEN Threw
      ELSE IF IsThrew(fieldSchema) THEN Threw
      ELSE WithOwnDescription(fieldSchema, value)

ObjectToZod(s) ==
  LET props == IF Has(s, "properties") THEN s.properties ELSE EmptyObject
      shape == [k \in DOMAIN props |-> FieldSchema(props[k])]
  IN  IF \E k \in DOMAIN props : IsThrew(shape[k]) THEN Threw
      ELSE WithOwnDescription(ZObject(ApplyRequired(shape, s)), s)

ArrayToZod(s) ==
  LET element == IF Has(s, "items") /\ ~IsNull(s.items)
                 THEN jsonSchemaToZod(s.items) ELSE ZAny
  IN  IF IsThrew(element) THEN Threw
      ELSE WithOwnDescription(ZArray(element), s)

jsonSchemaToZod(s) ==
  IF IsNull(s) \/ ~Has(s, "type") THEN ZAny
  ELSE CASE s.type = "object"  -> ObjectToZod(s)
         [] s.type = "string"  -> WithOwnDescription(ZString, s)
         [] s.type = "number"  -> WithOwnDescription(ZNumber, s)
         [] s.type = "boolean" -> WithOwnDescription(ZBoolean, s)
         [] s.type = "array"   -> ArrayToZod(s)
         [] OTHER              -> ZAny

(***************************************************************************)
(* JSON values and the acceptance behaviour of a zod validator.            *)
(***************************************************************************)
Undefined == [t |-> "undefined"]

Primitives == {[t |-> "string"], [t |-> "number"], [t |-> "boolean"], [t |-> "null"]}

ObjectValue(fields) == [t |-> "object", fields |-> fields]

ArrayValue(elems) == [t |-> "array", elems |-> elems]

SeqsUpTo(S, n) == UNION {[1..m -> S] : m \in 0..n}

RECURSIVE ValuesOfDepth(_)
ValuesOfDepth(n) ==
  IF n = 0 THEN Primitives \cup {ObjectValue(EmptyObject), ArrayValue(<<>>)}
  ELSE LET V == ValuesOfDepth(n - 1)
       IN  V \cup {ObjectValue(f) : f \in PropMaps(V)}
             \cup {ArrayValue(e) : e \in SeqsUpTo(V, MaxArrayLen)}

Values == ValuesOfDepth(MaxValueDepth)

RECURSIVE Accepts(_, _)
Accepts(z, v) ==
  CASE z.kind = "any"     -> TRUE
    [] z.kind = "string"  -> v.t = "string"
    [] z.kind = "number"  -> v.t = "number"
    [] z.kind = "boolean" -> v.t = "boolean"
    [] z.kind = "array"   ->
         v.t = "array" /\ \A i \in DOMAIN v.elems : Accepts(z.element, v.elems[i])
    [] z.kind = "object"  ->
         v.t = "object" /\
         \A k \in DOMAIN z.shape :
            Accepts(z.shape[k], IF k \in DOMAIN v.fields THEN v.fields[k] ELSE Undefined)

(***************************************************************************)
(* Agent definitions, as the definition loaders return them.               *)
(***************************************************************************)
SupportedClients == {"openai", "anthropic", "fireworks"}

ClientIds == SupportedClients \cup {"grok"}

OptionValues == {Unset, "", "given"}

EnvValues(key) == {Unset, "", "value-of-" \o key}

EnvKeys == {"OPENAI_API_KEY", "ANTHROPIC_API_KEY", "FIREWORKS_API_KEY"}

CtorSchemas ==
  { NullSchema,
    [type |-> "object", properties |-> [a |-> [type |-> "string"]], required |-> <<"a">>],
    [type |-> "object", properties |-> [a |-> NullSchema]],
    [type |-> "array", items |-> [type |-> "object", properties |-> [b |-> NullSchema]]] }

Definitions(n) ==
  { [name |-> n, model |-> "model-of-" \o n] @@ c @@ o :
      c \in {EmptyObject} \cup {[client |-> id] : id \in ClientIds},
      o \in {EmptyObject} \cup {[output_schema |-> s] : s \in CtorSchemas} }

NotFound == [notFound |-> TRUE]

NoDef == [none |-> TRUE]

NoAgent == [none |-> TRUE]

NoClient == [none |-> TRUE]

NoError == "<none>"

\* the outcome of one step of the constructor
StepOk(events, value) == [trace |-> events, error |-> NoError, value |-> value]

StepThrows(events, message) == [trace |-> events, error |-> message, value |-> NoDef]

(***************************************************************************)
(* The definition loaders of ./agentsRegistry.                             *)
(***************************************************************************)
LookupError == "agent definition not found"

loadAgentFromFile(path, stored) ==
  IF stored = NotFound THEN StepThrows(<<"loadAgentFromFile">>, LookupError)
  ELSE StepOk(<<"loadAgentFromFile">>, stored)

loadAgentDefinition(name, stored) ==
  IF stored = NotFound THEN StepThrows(<<"loadAgentDefinition">>, LookupError)
  ELSE StepOk(<<"loadAgentDefinition">>, stored)

(***************************************************************************)
(* Agent constructor, Agent.ts lines 17-69.                                *)
(***************************************************************************)
OptionsError == "You must provide either agentName or agentConfigPath"

SchemaError == "Failed to convert output schema to Zod schema"

CredentialError(key) == key \o " not set"

UnsupportedError(id) == "Unsupported model client: " \o id

\* variant: with no option given, the registry is asked for the undefined name
ResolveDefinition_defaultRegistry(opts, fDef, rDef) ==
  IF Truthy(opts.agentConfigPath) THEN loadAgentFromFile(opts.agentConfigPath, fDef)
  ELSE loadAgentDefinition(opts.agentName, rDef)

\* variant: the two branches of the lookup are swapped, agentName is tested first
ResolveDefinition_nameFirst(opts, fDef, rDef) ==
  IF Truthy(opts.agentName) THEN loadAgentDefinition(opts.agentName, rDef)
  ELSE IF Truthy(opts.agentConfigPath) THEN loadAgentFromFile(opts.agentConfigPath, fDef)
  ELSE StepThrows(<<>>, OptionsError)

\* lines 18-27
ResolveDefinition(opts, fDef, rDef) ==
  IF Truthy(opts.agentConfigPath) THEN loadAgentFromFile(opts.agentConfigPath, fDef)
  ELSE IF Truthy(opts.agentName) THEN loadAgentDefinition(opts.agentName, rDef)
  ELSE StepThrows(<<>>, OptionsError)

\* the rendering of agentDef.client in a template literal
ClientOf(def) == IF Has(def, "client") THEN def.client ELSE "undefined"

\* OpenAiClient.ts lines 12-25 and its siblings
NewModelClient(class, modelType, apiKey, modelName) ==
  [class |-> class, modelType |-> modelType, apiKey |-> apiKey, modelName |-> modelName]

\* variant: every branch tests OPENAI_API_KEY, as after a copied branch
ProviderBranch_copiedKey(def, e, key, class) ==
  IF ~Truthy(e["OPENAI_API_KEY"])
  THEN StepThrows(<<"read OPENAI_API_KEY">>, CredentialError("OPENAI_API_KEY"))
  ELSE StepOk(<<"read OPENAI_API_KEY", "new " \o class>>,
              NewModelClient(class, ClientOf(def), e[key], def.model))

ProviderBranch(def, e, key, class) ==
  IF ~Truthy(e[key]) THEN StepThrows(<<"read " \o key>>, CredentialError(key))
  ELSE StepOk(<<"read " \o key, "new " \o class>>,
              NewModelClient(class, ClientOf(def), e[key], def.model))

\* variant: the chain ends in the fireworks branch instead of the throw
SelectModelClient_noDefault(def, e) ==
  IF ClientOf(def) = "openai" THEN ProviderBranch(def, e, "OPENAI_API_KEY", "OpenAIClient")
  ELSE IF ClientOf(def) = "anthropic"
       THEN ProviderBranch(def, e, "ANTHROPIC_API_KEY", "AnthropicClient")
  ELSE ProviderBranch(def, e, "FIREWORKS_API_KEY", "FireworkClient")

\* lines 29-47
SelectModelClient(def, e) ==
  IF ClientOf(def) = "openai" THEN ProviderBranch(def, e, "OPENAI_API_KEY", "OpenAIClient")
  ELSE IF ClientOf(def) = "anthropic"
       THEN ProviderBranch(def, e, "ANTHROPIC_API_KEY", "AnthropicClient")
  ELSE IF ClientOf(def) = "fireworks"
       THEN ProviderBranch(def, e, "FIREWORKS_API_KEY", "FireworkClient")
  ELSE StepThrows(<<>>, UnsupportedError(ClientOf(def)))

NoSchema == [null |-> TRUE]

\* variant: no try/catch around the translation, the TypeError escapes
CompileOutputSchema_rethrow(def) ==
  IF Has(def, "output_schema") /\ ~IsNull(def.output_schema)
  THEN LET outputSchema == jsonSchemaToZod(def.output_schema)
       IN  IF IsThrew(outputSchema)
           THEN StepThrows(<<"jsonSchemaToZod">>,
                           "Cannot read properties of null (reading 'description')")
           ELSE StepOk(<<"jsonSchemaToZod">>, outputSchema)
  ELSE StepOk(<<>>, NoSchema)

\* lines 49-57
CompileOutputSchema(def) ==
  IF Has(def, "output_schema") /\ ~IsNull(def.output_schema)
  THEN LET outputSchema == jsonSchemaToZod(def.output_schema)
       IN  IF IsThrew(outputSchema) THEN StepThrows(<<"jsonSchemaToZod">>, SchemaError)
           ELSE StepOk(<<"jsonSchemaToZod">>, outputSchema)
  ELSE StepOk(<<>>, NoSchema)

\* lines 59-68
NewBaseAgent(def, modelClient, outputSchema) ==
  [config |-> [name |-> def.name,
               dynamicVariables |-> IF Has(def, "dynamic_variables")
                                    THEN def.dynamic_variables ELSE EmptyObject],
   modelClient |-> modelClient,
   outputSchema |-> outputSchema]

Failed(events, def, message) ==
  [phase |-> "failed", agentDef |-> def, error |-> message, trace |-> events, agent |-> NoAgent]

\* variant: the output schema is compiled before the provider is selected
Construct_schemaFirst(opts, e, fDef, rDef) ==
  LET r == ResolveDefinition(opts, fDef, rDef)
  IN  IF r.error # NoError THEN Failed(r.trace, NoDef, r.error)
      ELSE
        LET o == CompileOutputSchema(r.value)
        IN  IF o.error # NoError THEN Failed(r.trace \o o.trace, r.value, o.error)
            ELSE
              LET c == SelectModelClient(r.value, e)
              IN  IF c.error # NoError
                  THEN Failed(r.trace \o o.trace \o c.trace, r.value, c.error)
                  ELSE [phase |-> "constructed",
                        agentDef |-> r.value,
                        error |-> NoError,
                        trace |-> r.trace \o o.trace \o c.trace \o <<"new BaseAgent">>,
                        agent |-> NewBaseAgent(r.value, c.value, o.value)]

Construct(opts, e, fDef, rDef) ==
  LET r == ResolveDefinition(opts, fDef, rDef)
  IN  IF r.error # NoError THEN Failed(r.trace, NoDef, r.error)
      ELSE
        LET c == SelectModelClient(r.value, e)
        IN  IF c.error # NoError THEN Failed(r.trace \o c.trace, r.value, c.error)
            ELSE
              LET o == CompileOutputSchema(r.value)
              IN  IF o.error # NoError
                  THEN Failed(r.trace \o c.trace \o o.trace, r.value, o.error)
                  ELSE [phase |-> "constructed",
                        agentDef |-> r.value,
                        error |-> NoError,
                        trace |-> r.trace \o c.trace \o o.trace \o <<"new BaseAgent">>,
                        agent |-> NewBaseAgent(r.value, c.value, o.value)]

(***************************************************************************)
(* Specification of the constructor: one call of new Agent(options) in an  *)
(* environment drawn from the bounded sets above.                          *)
(***************************************************************************)
NotCompiled == [pending |-> TRUE]

Init ==
  /\ options \in [agentName : OptionValues, agentConfigPath : OptionValues]
  /\ env \in {e \in [EnvKeys -> UNION {EnvValues(k) : k \in EnvKeys}] :
                \A k \in EnvKeys : e[k] \in EnvValues(k)}
  /\ fileDef \in Definitions("file-agent") \cup {NotFound}
  /\ regDef \in Definitions("registry-agent") \cup {NotFound}
  /\ phase = "new"
  /\ agentDef = NoDef
  /\ error = NoError
  /\ trace = <<>>
  /\ agent = NoAgent
  /\ schema = NullSchema
  /\ zod = NotCompiled

ConstructAgent ==
  /\ phase = "new"
  /\ LET r == Construct(options, env, fileDef, regDef)
     IN  /\ phase' = r.phase
         /\ agentDef' = r.agentDef
         /\ error' = r.error
         /\ trace' = r.trace
         /\ agent' = r.agent
  /\ UNCHANGED <<options, env, fileDef, regDef, schema, zod>>

Next == ConstructAgent

Spec == Init /\ [][Next]_vars

(***************************************************************************)
(* Specification of the translator: jsonSchemaToZod applied to one schema  *)
(* drawn from the bounded set of schema trees.                             *)
(***************************************************************************)
InitSchema ==
  /\ options = [agentName |-> Unset, agentConfigPath |-> Unset]
  /\ env = [k \in EnvKeys |-> Unset]
  /\ fileDef = NotFound
  /\ regDef = NotFound
  /\ phase = "new"
  /\ agentDef = NoDef
  /\ error = NoError
  /\ trace = <<>>
  /\ agent = NoAgent
  /\ schema \in Schemas
  /\ zod = NotCompiled

Compile ==
  /\ zod = NotCompiled
  /\ zod' = jsonSchemaToZod(schema)
  /\ UNCHANGED <<ctorVars, schema>>

NextSchema == Compile

SpecSchema == InitSchema /\ [][NextSchema]_vars

(***************************************************************************)
(* Properties of the constructor, checked under Spec.                      *)
(***************************************************************************)
Returned == phase # "new"

Events == {trace[i] : i \in DOMAIN trace}

LoadEvents == {"loadAgentFromFile", "loadAgentDefinition"}

ClientEvents == {"new OpenAIClient", "new AnthropicClient", "new FireworkClient"}

ReadEvents == {"read " \o k : k \in EnvKeys}

KeyOf(id) ==
  CASE id = "openai"    -> "OPENAI_API_KEY"
    [] id = "anthropic" -> "ANTHROPIC_API_KEY"
    [] id = "fireworks" -> "FIREWORKS_API_KEY"

CredentialMessages == {k \o " not set" : k \in EnvKeys}

UnsupportedMessages ==
  {"Unsupported model client: " \o id : id \in (ClientIds \cup {"undefined"}) \ SupportedClients}

HasOutputSchema(def) == Has(def, "output_schema") /\ ~IsNull(def.output_schema)

SchemaMalformed(def) == HasOutputSchema(def) /\ IsThrew(jsonSchemaToZod(def.output_schema))

\* C1: once a definition is resolved whose client identifier is none of openai,
\* anthropic, fireworks, construction fails with "Unsupported model client: <id>",
\* whatever the three credentials are.
C1_UnsupportedClientFails ==
  (Returned /\ agentDef # NoDef /\ ClientOf(agentDef) \notin SupportedClients)
    => /\ phase = "failed"
       /\ error = "Unsupported model client: " \o ClientOf(agentDef)
       /\ agent = NoAgent
       /\ Events \cap (ReadEvents \cup ClientEvents) = {}

C1_Witness ==
  /\ phase = "failed"
  /\ agentDef # NoDef
  /\ ClientOf(agentDef) = "grok"
  /\ error = "Unsupported model client: grok"
  /\ \A k \in EnvKeys : Truthy(env[k])

\* C2: for each supported provider, when the resolved definition selects it and
\* its credential is absent, construction fails naming exactly that credential,
\* before the provider's client is constructed, whatever the other two
\* credentials are.
C2_MissingCredentialFails ==
  \A id \in SupportedClients :
    (Returned /\ agentDef # NoDef /\ ClientOf(agentDef) = id /\ ~Truthy(env[KeyOf(id)]))
      => /\ phase = "failed"
         /\ error = KeyOf(id) \o " not set"
         /\ \A k \in EnvKeys \ {KeyOf(id)} : error # k \o " not set"
         /\ Events \cap ClientEvents = {}
         /\ agent = NoAgent

C2_Witness ==
  /\ phase = "failed"
  /\ agentDef # NoDef
  /\ ClientOf(agentDef) = "anthropic"
  /\ env["ANTHROPIC_API_KEY"] = Unset
  /\ Truthy(env["OPENAI_API_KEY"])
  /\ Truthy(env["FIREWORKS_API_KEY"])
  /\ error = "ANTHROPIC_API_KEY not set"

\* C3: called with neither agentName nor agentConfigPath, the constructor fails
\* with the configuration error before any lookup, provider selection,
\* credential read or client construction.
C3_NoOptionFailsFirst ==
  (Returned /\ options.agentName = Unset /\ options.agentConfigPath = Unset)
    => /\ phase = "failed"
       /\ error = "You must provide either agentName or agentConfigPath"
       /\ trace = <<>>
       /\ agentDef = NoDef
       /\ agent = NoAgent

C3_Witness ==
  /\ phase = "failed"
  /\ options.agentName = Unset
  /\ options.agentConfigPath = Unset
  /\ error = "You must provide either agentName or agentConfigPath"
  /\ fileDef # NotFound
  /\ regDef # NotFound
  /\ \A k \in EnvKeys : Truthy(env[k])

BothGiven == Truthy(options.agentName) /\ Truthy(options.agentConfigPath)

C7_SchemaFailureWrapped ==
  (Returned /\ agentDef # NoDef /\ "jsonSchemaToZod" \in Events /\ SchemaMalformed(agentDef))
    => /\ phase = "failed"
       /\ error = "Failed to convert output schema to Zod schema"
       /\ error \notin CredentialMessages \cup UnsupportedMessages
       /\ agent = NoAgent
       /\ "new BaseAgent" \notin Events

C7_Witness ==
  /\ phase = "failed"
  /\ agentDef # NoDef
  /\ HasOutputSchema(agentDef)
  /\ agentDef.output_schema = [type |-> "object", properties |-> [a |-> NullSchema]]
  /\ "jsonSchemaToZod" \in Events
  /\ error = "Failed to convert output schema to Zod schema"

Rank(e) ==
  CASE e \in LoadEvents        -> 1
    [] e \in ReadEvents        -> 2
    [] e \in ClientEvents      -> 3
    [] e = "jsonSchemaToZod"   -> 4
    [] e = "new BaseAgent"     -> 5
    [] OTHER                   -> 0

RanksDone == {Rank(e) : e \in Events}

SeveralFaults ==
  /\ agentDef # NoDef
  /\ SchemaMalformed(agentDef)
  /\ \/ ClientOf(agentDef) \notin SupportedClients
     \/ ~Truthy(env[KeyOf(ClientOf(agentDef))])

\* C10: construction runs resolve, provider selection with its credential check,
\* schema compilation and composition of the runtime in that order and stops at
\* the first failing step; the runtime exists iff every earlier step succeeded;
\* with several faults the error of the earliest step is reported.
C10_StepsInOrderFirstFailureWins ==
  Returned =>
    /\ \A i, j \in DOMAIN trace : i < j => Rank(trace[i]) < Rank(trace[j])
    /\ 0 \notin RanksDone
    /\ \A r \in RanksDone \ {1, 5} : (IF r = 4 THEN 3 ELSE r - 1) \in RanksDone
    /\ 5 \in RanksDone => 3 \in RanksDone
    /\ (phase = "constructed") <=> (error = NoError)
    /\ (agent # NoAgent) <=> (error = NoError)
    /\ (agent # NoAgent) <=> (5 \in RanksDone)
    /\ agent # NoAgent =>
         /\ agentDef # NoDef
         /\ agent.modelClient # NoClient
         /\ agent.modelClient.apiKey = env[KeyOf(ClientOf(agentDef))]
         /\ Truthy(agent.modelClient.apiKey)
         /\ HasOutputSchema(agentDef) <=> (4 \in RanksDone)
         /\ HasOutputSchema(agentDef) <=> (agent.outputSchema # NoSchema)
         /\ ~SchemaMalformed(agentDef)
    /\ error = "Failed to convert output schema to Zod schema" => 3 \in RanksDone
    /\ error \in CredentialMessages \cup UnsupportedMessages =>
         1 \in RanksDone /\ 4 \notin RanksDone
    /\ error = "You must provide either agentName or agentConfigPath" => RanksDone = {}
    /\ SeveralFaults => error \in CredentialMessages \cup UnsupportedMessages

C10_Witness ==
  /\ phase = "failed"
  /\ SeveralFaults
  /\ ClientOf(agentDef) = "grok"
  /\ error = "Unsupported model client: grok"
  /\ trace = <<"loadAgentDefinition">>

(***************************************************************************)
(* Properties of the translator, checked under SpecSchema.                 *)
(***************************************************************************)
Compiled == zod # NotCompiled

KnownTypes == {"object", "string", "number", "boolean", "array"}

PropsOf(s) == IF Has(s, "properties") THEN s.properties ELSE EmptyObject

RequiredOf(s) == IF Has(s, "required") THEN {s.required[i] : i \in DOMAIN s.required} ELSE {}

AllValues == Values \cup {Undefined}

\* a tree built only from object, string, number, boolean and array nodes
RECURSIVE IsStrict(_)
IsStrict(s) ==
  /\ ~IsNull(s)
  /\ Has(s, "type")
  /\ s.type \in KnownTypes
  /\ \A k \in DOMAIN PropsOf(s) : IsStrict(s.properties[k])
  /\ Has(s, "items") => IsStrict(s.items)

\* the structural match of a value against a strict tree: the kind agrees, every
\* required name is present, every declared field that is present matches
RECURSIVE Matches(_, _)
Matches(s, v) ==
  CASE s.type = "string"  -> v.t = "string"
    [] s.type = "number"  -> v.t = "number"
    [] s.type = "boolean" -> v.t = "boolean"
    [] s.type = "array"   ->
         /\ v.t = "array"
         /\ Has(s, "items") => \A i \in DOMAIN v.elems : Matches(s.items, v.elems[i])
    [] s.type = "object"  ->
         /\ v.t = "object"
         /\ \A k \in RequiredOf(s) : k \in DOMAIN v.fields
         /\ \A k \in DOMAIN PropsOf(s) \cap DOMAIN v.fields :
              Matches(s.properties[k], v.fields[k])

\* C5: for every tree of object, string, number, boolean and array nodes the
\* validator accepts exactly the structurally matching values; it rejects a value
\* that misses a required name (also one with no entry in properties) and a
\* value whose primitive is of another kind.
C5_AcceptsExactlyMatching ==
  (Compiled /\ IsStrict(schema))
    => /\ ~IsThrew(zod)
       /\ \A v \in Values : Accepts(zod, v) <=> Matches(schema, v)

IsObjectSchema(s) == ~IsNull(s) /\ Has(s, "type") /\ s.type = "object"

IsArraySchema(s) == ~IsNull(s) /\ Has(s, "type") /\ s.type = "array"

\* the value is an object that omits field k, and every other declared field is
\* present with a value its validator accepts
OmitsOnly(z, v, k) ==
  /\ v.t = "object"
  /\ k \notin DOMAIN v.fields
  /\ \A other \in DOMAIN z.shape \ {k} :
       other \in DOMAIN v.fields /\ Accepts(z.shape[other], v.fields[other])

\* C6: every declared field of an object schema that is not listed in required
\* is optional: a value that omits it and otherwise matches is accepted.
C6_UnlistedFieldOptional ==
  (Compiled /\ ~IsThrew(zod) /\ IsObjectSchema(schema))
    => \A k \in DOMAIN PropsOf(schema) \ RequiredOf(schema) :
         \A v \in Values : OmitsOnly(zod, v, k) => Accepts(zod, v)

Permissive(s) == IsNull(s) \/ ~Has(s, "type") \/ s.type \notin KnownTypes

AcceptsEverything(z) == ~IsThrew(z) /\ \A v \in AllValues : Accepts(z, v)

\* C8: a node that is absent, has no type or has an unknown type compiles, without
\* failing, to a validator that accepts every value, at the root, as an object
\* field and as an array's element shape; an array without items accepts any
\* element.
C8_PermissiveNodesAcceptAll ==
  Compiled =>
    /\ Permissive(schema) => AcceptsEverything(zod)
    /\ IsObjectSchema(schema) =>
         \A k \in DOMAIN PropsOf(schema) :
           Permissive(schema.properties[k]) =>
             ~IsThrew(zod) /\ AcceptsEverything(zod.shape[k])
    /\ (IsArraySchema(schema) /\ (~Has(schema, "items") \/ Permissive(schema.items))) =>
         ~IsThrew(zod) /\ AcceptsEverything(zod.element)

\* every node of s that has a description has it on its validator node in z
RECURSIVE DescriptionsPreserved(_, _)
DescriptionsPreserved(s, z) ==
  /\ (~IsNull(s) /\ Has(s, "description")) =>
       Has(z, "description") /\ z.description = s.description
  /\ (IsObjectSchema(s) /\ z.kind = "object") =>
       \A k \in DOMAIN PropsOf(s) : DescriptionsPreserved(s.properties[k], z.shape[k])
  /\ (IsArraySchema(s) /\ z.kind = "array" /\ Has(s, "items")) =>
       DescriptionsPreserved(s.items, z.element)

\* C9: every node of the schema tree that carries a description, whatever its
\* variant and position, has that description on the validator node produced
\* for it.
C9_DescriptionsPreserved ==
  (Compiled /\ ~IsThrew(zod)) => DescriptionsPreserved(schema, zod)

====
